---- MODULE Spec2Model ----
(***************************************************************************)
(* CVCircuit (c2qa/circuit.py): a QuantumCircuit over a qumode register    *)
(* and a qubit register, with the continuous-variable gate builders.       *)
(*                                                                         *)
(* Qubits are numbered as the circuit numbers them: the qubits of          *)
(* qmr.qreg first (0 .. qmr.size-1), then the qubits of qr.                *)
(* An operator matrix of the operator library is an opaque value: the      *)
(* record of the generator called, its arguments and the cutoff.           *)
(* A Python call is modelled with the positional arguments it is given,    *)
(* so that a call that does not match the method's signature raises the    *)
(* TypeError the interpreter raises.                                       *)
(***************************************************************************)
EXTENDS Integers, Sequences, FiniteSets, TLC

\* ---- bounds of the model ----
\* calls are made on circuits that hold fewer than MaxOps instructions
MaxOps == 2

\* ---- the inputs of the model ----
\* register shapes <<num_qumodes, num_qubits_per_mode, size of qr>>, for
\* QumodeRegister(num_qumodes, num_qubits_per_mode) and QuantumRegister(size);
\* the tests build <<2, 2, 2>> and <<1, 2, 1>>
Shapes == {<<2, 2, 2>>, <<1, 2, 1>>, <<2, 1, 1>>, <<1, 1, 2>>}
\* gate parameters the callers pass, as <<magnitude or angle, phi>>
\* (tests: a value and its negation; phi defaults to 0)
GateParams == {<<1, 0>>, <<-1, 1>>}

VARIABLES
    qmr,          \* self.qmr: the qumode register
    qr,           \* self.qr: number of qubits of the qubit register
    constructed,  \* whether CVCircuit.__init__ has completed
    data,         \* the circuit's ordered instruction sequence
    op,           \* the method called last
    args,         \* the arguments of that call
    err,          \* the exception that call raised, or "none"
    prev,         \* data as it was when that call started
    ret,          \* what that call returned: <<>> for None, else <<value>>
    scratch,      \* the scratch register the last cv_conditional built
    printed       \* what that call wrote to standard output

vars == <<qmr, qr, constructed, data, op, args, err, prev, ret, scratch, printed>>

RECURSIVE Pow(_, _)
Pow(b, n) == IF n = 0 THEN 1 ELSE b * Pow(b, n - 1)

Min(a, b) == IF a < b THEN a ELSE b

\* ---- QumodeRegister (c2qa/qumoderegister.py) ----

\* QumodeRegister(num_qumodes, num_qubits_per_mode): each qumode is a group of
\* num_qubits_per_mode qubits, so that ceil(log2(cutoff)) = num_qubits_per_mode
QumodeRegister(num_qumodes, num_qubits_per_mode) ==
    [num_qumodes |-> num_qumodes,
     num_qubits_per_mode |-> num_qubits_per_mode,
     cutoff |-> Pow(2, num_qubits_per_mode),
     size |-> num_qumodes * num_qubits_per_mode]

\* reg[key]: the qubits of qumode key, a slice of reg.qreg (empty past its end)
QumodeGetItem(reg, key) ==
    LET start == Min(reg.num_qubits_per_mode * key, reg.size)
        stop  == Min(reg.num_qubits_per_mode * key + reg.num_qubits_per_mode, reg.size)
    IN  [i \in 1..(stop - start) |-> start + i - 1]

\* qr[j] in a circuit built over (reg.qreg, qr): qr's qubits follow reg.qreg's
QrGetItem(reg, j) == reg.size + j

\* ---- the operator library and the circuit primitives ----

\* a matrix of the operator library over `modes` qumodes truncated at cutoff
Operator(gate, params, cutoff, modes) ==
    [gate |-> gate, params |-> params, cutoff |-> cutoff, modes |-> modes]

Dim(operator) == Pow(operator.cutoff, operator.modes)

\* vector[n] of a vector of length cutoff is an IndexError outside -cutoff..cutoff-1
OutOfBounds(cutoff, n) == n < -cutoff \/ n >= cutoff

\* OneHot with the 1 one position early
OneHotShifted(cutoff, n) ==
    LET pos == IF n < 0 THEN n + cutoff ELSE n
    IN  [i \in 1..cutoff |-> IF i = pos THEN 1 ELSE 0]

\* numpy.zeros((cutoff,)); vector[n] = 1, with numpy's negative indexing
OneHot(cutoff, n) ==
    LET pos == IF n < 0 THEN n + cutoff ELSE n
    IN  [i \in 1..cutoff |-> IF i = pos + 1 THEN 1 ELSE 0]

\* QuantumCircuit.append of an instruction acting on 2^k amplitudes to qubits:
\* refused when the qubits given are not the k qubits it acts on
Attach(d, instruction, dim, qubits) ==
    IF Pow(2, Len(qubits)) = dim
    THEN [data |-> Append(d, [instruction |-> instruction, qubits |-> qubits]),
          err |-> "none"]
    ELSE [data |-> d, err |-> "QiskitError"]

Initialize(vector) == [kind |-> "initialize", params |-> vector]

UnitaryGate(operator, label) ==
    [kind |-> "unitary", operator |-> operator, label |-> label]

\* Control with both branches controlled on 1
ControlOnOne(operator, ctrl_state) ==
    [kind |-> "controlled", base |-> UnitaryGate(operator, ""),
     num_ctrl_qubits |-> 1, ctrl_state |-> 1]

\* UnitaryGate(operator).control(num_ctrl_qubits=1, ctrl_state=ctrl_state)
Control(operator, ctrl_state) ==
    [kind |-> "controlled", base |-> UnitaryGate(operator, ""),
     num_ctrl_qubits |-> 1, ctrl_state |-> ctrl_state]

\* ---- CVCircuit ----

\* __init__(self, qmr, qr, cr, name=None): regs are the registers given after qmr
CVCircuit_init(regs) ==
    /\ ~constructed
    /\ op' = "__init__"
    /\ args' = [regs |-> regs]
    /\ IF Len(regs) < 2
       THEN err' = "TypeError" /\ constructed' = FALSE
       ELSE err' = "none" /\ constructed' = TRUE
    /\ data' = <<>>
    /\ prev' = data
    /\ ret' = <<>>
    /\ printed' = <<>>
    /\ UNCHANGED <<qmr, qr, scratch>>

\* the bound check with > for >=
AboveCutoffStrict(n, cutoff) == n > cutoff

\* the bound check of cv_initialize
AboveCutoff(n, cutoff) == n >= cutoff

\* the loop of cv_initialize from entry k (1-based; qumode k-1) with data d
RECURSIVE InitLoop(_, _, _, _)
InitLoop(reg, fock_states, k, d) ==
    IF k > Len(fock_states) THEN [data |-> d, err |-> "none"]
    ELSE LET n == fock_states[k] IN
         IF AboveCutoff(n, reg.cutoff) THEN [data |-> d, err |-> "ValueError"]
         ELSE IF OutOfBounds(reg.cutoff, n) THEN [data |-> d, err |-> "IndexError"]
         ELSE LET vector == OneHot(reg.cutoff, n)
                  r == Attach(d, Initialize(vector), Len(vector),
                              QumodeGetItem(reg, k - 1))
              IN  IF r.err # "none" THEN r
                  ELSE InitLoop(reg, fock_states, k + 1, r.data)

\* cv_initialize(self, fock_states), called with fock_states and the further
\* positional arguments surplus
cv_initialize(fock_states, surplus) ==
    /\ constructed
    /\ Len(data) < MaxOps
    /\ surplus = <<>> => Len(data) + Len(fock_states) <= MaxOps
    /\ op' = "cv_initialize"
    /\ args' = [fock_states |-> fock_states, surplus |-> surplus]
    /\ IF surplus # <<>>
       THEN err' = "TypeError" /\ data' = data
       ELSE LET r == InitLoop(qmr, fock_states, 1, data)
            IN  err' = r.err /\ data' = r.data
    /\ prev' = data
    /\ ret' = <<>>
    /\ printed' = <<>>
    /\ UNCHANGED <<qmr, qr, constructed, scratch>>

\* SubRegister with the two arguments exchanged
SubRegisterSwapped(reg) == QumodeRegister(reg.num_qubits_per_mode, reg.num_qumodes)

\* the scratch register of cv_conditional
SubRegister(reg) == QumodeRegister(reg.num_qumodes, reg.num_qubits_per_mode)

\* the two appends of cv_conditional to the scratch circuit over (sub_qmr.qreg, sub_qr)
SubCircuit(sub_qmr, op_a, op_b) ==
    LET sub_qr0 == QrGetItem(sub_qmr, 0)
        a == Attach(<<>>, Control(op_a, 0), 2 * Dim(op_a),
                    <<sub_qr0>> \o QumodeGetItem(sub_qmr, 0))
    IN  IF a.err # "none" THEN a
        ELSE Attach(a.data, Control(op_b, 1), 2 * Dim(op_b),
                    <<sub_qr0>> \o QumodeGetItem(sub_qmr, 1))

\* sub_circ.to_instruction()
ToInstruction(name, sub_qmr, definition) ==
    [kind |-> "instruction", name |-> name, definition |-> definition,
     num_qubits |-> sub_qmr.size + 1]

cv_conditional(name, op_a, op_b) ==
    /\ constructed
    /\ Len(data) < MaxOps
    /\ op' = "cv_conditional"
    /\ args' = [name |-> name, op_a |-> op_a, op_b |-> op_b]
    /\ LET sub_qmr == SubRegister(qmr)
           r == SubCircuit(sub_qmr, op_a, op_b)
       IN  /\ scratch' = <<sub_qmr>>
           /\ err' = r.err
           /\ ret' = IF r.err = "none"
                     THEN <<ToInstruction(name, sub_qmr, r.data)>> ELSE <<>>
    /\ prev' = data
    /\ printed' = <<>>
    /\ UNCHANGED <<qmr, qr, constructed, data>>

\* TwoModeQubits with qumode_b's qubits first
TwoModeQubitsSwapped(qumode_a, qumode_b) == qumode_b \o qumode_a

\* qubits=qumode_a + qumode_b
TwoModeQubits(qumode_a, qumode_b) == qumode_a \o qumode_b

\* self.unitary(obj=operator, qubits=qubits, label=label), as a whole call
GateCall(name, a, operator, qubits, label) ==
    /\ constructed
    /\ Len(data) < MaxOps
    /\ op' = name
    /\ args' = a
    /\ LET r == Attach(data, UnitaryGate(operator, label), Dim(operator), qubits)
       IN  err' = r.err /\ data' = r.data
    /\ prev' = data
    /\ ret' = <<>>
    /\ printed' = <<>>
    /\ UNCHANGED <<qmr, qr, constructed, scratch>>

cv_bs(theta, qumode_a, qumode_b, phi) ==
    GateCall("cv_bs",
             [theta |-> theta, qumode_a |-> qumode_a, qumode_b |-> qumode_b, phi |-> phi],
             Operator("beamsplitter", <<theta, phi>>, qmr.cutoff, 2),
             TwoModeQubits(qumode_a, qumode_b), "BS")

cv_d(r, qumode, phi) ==
    GateCall("cv_d", [r |-> r, qumode |-> qumode, phi |-> phi],
             Operator("displacement", <<r, phi>>, qmr.cutoff, 1), qumode, "D")

cv_r(theta, qumode) ==
    GateCall("cv_r", [theta |-> theta, qumode |-> qumode],
             Operator("phase", <<theta>>, qmr.cutoff, 1), qumode, "R")

cv_s(r, qumode, phi) ==
    GateCall("cv_s", [r |-> r, qumode |-> qumode, phi |-> phi],
             Operator("squeezing", <<r, phi>>, qmr.cutoff, 1), qumode, "S")

cv_s2(r, qumode_a, qumode_b, phi) ==
    GateCall("cv_s2",
             [r |-> r, qumode_a |-> qumode_a, qumode_b |-> qumode_b, phi |-> phi],
             Operator("two_mode_squeeze", <<r, phi>>, qmr.cutoff, 2),
             TwoModeQubits(qumode_a, qumode_b), "S2")

\* cv_cnd_d / cv_cnd_s (self, x, y, ctrl, qumode_a, qumode_b): qumodes are the
\* qumodes given after ctrl; the body only prints
CndCall(name, x, y, ctrl, qumodes) ==
    /\ constructed
    /\ Len(data) < MaxOps
    /\ op' = name
    /\ args' = [a |-> x, b |-> y, ctrl |-> ctrl, qumodes |-> qumodes]
    /\ IF Len(qumodes) # 2
       THEN err' = "TypeError" /\ printed' = <<>>
       ELSE err' = "none" /\ printed' = <<"hello">>
    /\ prev' = data
    /\ ret' = <<>>
    /\ UNCHANGED <<qmr, qr, constructed, data, scratch>>

cv_cnd_d(alpha, beta, ctrl, qumodes) == CndCall("cv_cnd_d", alpha, beta, ctrl, qumodes)

cv_cnd_s(z_a, z_b, ctrl, qumodes) == CndCall("cv_cnd_s", z_a, z_b, ctrl, qumodes)

\* ---- the calls the model makes ----

Qumodes == 0..(qmr.num_qumodes - 1)

\* Fock-state indices around the two ends of the valid range
FockVals(cutoff) == {-(cutoff + 1), -cutoff, -1, 0, cutoff - 1, cutoff}

FockLists(cutoff) == UNION {[1..len -> FockVals(cutoff)] : len \in 0..MaxOps}

\* the operators callers hand to cv_conditional
CondOperators ==
    {Operator("displacement", p, qmr.cutoff, 1) : p \in GateParams}

\* the qumodes given after ctrl: one (as the tests call) or two (as the signature asks)
QumodeArgs ==
    {<<QumodeGetItem(qmr, a)>> : a \in Qumodes}
    \cup {<<QumodeGetItem(qmr, 0), QumodeGetItem(qmr, qmr.num_qumodes - 1)>>}

Init ==
    /\ \E shape \in Shapes : /\ qmr = QumodeRegister(shape[1], shape[2])
                            /\ qr = shape[3]
    /\ constructed = FALSE
    /\ data = <<>>
    /\ op = "none"
    /\ args = <<>>
    /\ err = "none"
    /\ prev = <<>>
    /\ ret = <<>>
    /\ scratch = <<>>
    /\ printed = <<>>

Next ==
    \/ \E regs \in {<<"qr">>, <<"qr", "cr">>} : CVCircuit_init(regs)
    \/ \E fock_states \in FockLists(qmr.cutoff) : cv_initialize(fock_states, <<>>)
    \/ \E q \in Qumodes : cv_initialize(0, <<QumodeGetItem(qmr, q)>>)
    \/ \E op_a \in CondOperators : \E op_b \in CondOperators \ {op_a} : cv_conditional("Dc", op_a, op_b)
    \/ \E p \in GateParams, a \in Qumodes : \E b \in Qumodes \ {a} :
          cv_bs(p[1], QumodeGetItem(qmr, a), QumodeGetItem(qmr, b), p[2])
    \/ \E p \in GateParams, q \in Qumodes : cv_d(p[1], QumodeGetItem(qmr, q), p[2])
    \/ \E p \in GateParams, q \in Qumodes : cv_r(p[1], QumodeGetItem(qmr, q))
    \/ \E p \in GateParams, q \in Qumodes : cv_s(p[1], QumodeGetItem(qmr, q), p[2])
    \/ \E p \in GateParams, a \in Qumodes : \E b \in Qumodes \ {a} :
          cv_s2(p[1], QumodeGetItem(qmr, a), QumodeGetItem(qmr, b), p[2])
    \/ \E c \in 0..(qr - 1), qs \in QumodeArgs : cv_cnd_d(1, -1, QrGetItem(qmr, c), qs)
    \/ \E c \in 0..(qr - 1), qs \in QumodeArgs : cv_cnd_s(1, -1, QrGetItem(qmr, c), qs)

Spec == Init /\ [][Next]_vars

\* ---- properties ----

GateBuilders == {"cv_bs", "cv_d", "cv_r", "cv_s", "cv_s2"}

\* the last call was cv_initialize(fock_states) with a list
ListCall == op = "cv_initialize" /\ args.surplus = <<>>

InRange(fock_states) ==
    \A k \in 1..Len(fock_states) : 0 <= fock_states[k] /\ fock_states[k] < qmr.cutoff

\* one initialization per entry: entry k sets the qubits of qumode k-1 to the
\* amplitude vector that is 1 at position fock_states[k] (counted from 0)
Initializations(fock_states) ==
    [k \in 1..Len(fock_states) |->
        [instruction |-> [kind |-> "initialize",
                          params |-> [i \in 1..qmr.cutoff |->
                                         IF i - 1 = fock_states[k] THEN 1 ELSE 0]],
         qubits |-> [j \in 1..qmr.num_qubits_per_mode |->
                        (k - 1) * qmr.num_qubits_per_mode + j - 1]]]

\* C1 (as claimed): a call of cv_initialize whose list holds an index at or
\* above the cutoff, at any position, raises the value error.
C1_ValueErrorWheneverAboveCutoff ==
    (ListCall /\ \E k \in 1..Len(args.fock_states) : args.fock_states[k] >= qmr.cutoff)
        => err = "ValueError"

\* C2 (as claimed): for every list whose entries are all in 0..cutoff-1,
\* cv_initialize appends one initialization per entry, in list order, entry k
\* on the qubits of qumode k with the one-hot vector of its index.
C2_OneInitializationPerEntry ==
    (ListCall /\ InRange(args.fock_states))
        => /\ err = "none"
           /\ data = prev \o Initializations(args.fock_states)

\* C2 (amended): the same for every such list that names no more qumodes than
\* the register has.
C2_OneInitializationPerQumode ==
    (ListCall /\ InRange(args.fock_states)
              /\ Len(args.fock_states) <= qmr.num_qumodes)
        => /\ err = "none"
           /\ data = prev \o Initializations(args.fock_states)

C2_Witness ==
    /\ ListCall
    /\ Len(args.fock_states) = 2
    /\ InRange(args.fock_states)
    /\ args.fock_states[1] # args.fock_states[2]
    /\ Len(data) = 2

\* C3 (as claimed): the bound check is the only error path of cv_initialize:
\* a call whose indices are all below the cutoff (negative ones and lists of
\* any length included) completes, and no call fails other than by the value error.
C3_OnlyErrorIsBoundCheck ==
    ListCall
        => /\ (\A k \in 1..Len(args.fock_states) : args.fock_states[k] < qmr.cutoff)
                => err = "none"
           /\ err \in {"none", "ValueError"}

\* C3 (amended): a call of cv_initialize completes whenever every index n has
\* -cutoff <= n < cutoff and the list names no more qumodes than the register
\* has; the value error is raised only for an index at or above the cutoff,
\* and the other failures are the IndexError of an index below -cutoff and the
\* circuit library's error for an entry past the last qumode.
C3_ErrorPaths ==
    ListCall
        => /\ ((\A k \in 1..Len(args.fock_states) :
                    -qmr.cutoff <= args.fock_states[k] /\ args.fock_states[k] < qmr.cutoff)
               /\ Len(args.fock_states) <= qmr.num_qumodes)
                => err = "none"
           /\ err \in {"none", "ValueError", "IndexError", "QiskitError"}
           /\ err = "ValueError"
                => \E k \in 1..Len(args.fock_states) : args.fock_states[k] >= qmr.cutoff
           /\ err = "IndexError"
                => \E k \in 1..Len(args.fock_states) : args.fock_states[k] < -qmr.cutoff
           /\ err = "QiskitError" => Len(args.fock_states) > qmr.num_qumodes

C3_Witness ==
    /\ ListCall
    /\ Len(args.fock_states) = 2
    /\ args.fock_states[1] = -1
    /\ args.fock_states[2] = -qmr.cutoff
    /\ err = "none"
    /\ Len(data) = 2

\* C4 (as claimed): when cv_initialize raises the value error the circuit's
\* instruction sequence is what it was before the call.
C4_NoPartialFailure ==
    (op = "cv_initialize" /\ err = "ValueError") => data = prev

\* the qubits a gate builder was asked to act on
GateQubits ==
    IF op \in {"cv_bs", "cv_s2"} THEN args.qumode_a \o args.qumode_b ELSE args.qumode

\* C5: a call of cv_bs, cv_d, cv_r, cv_s or cv_s2 appends exactly one unitary
\* operation at the end of the sequence and leaves the earlier ones unchanged;
\* it acts on the given qumode's qubits (qumode_a's then qumode_b's for cv_bs
\* and cv_s2) and its matrix is requested with the register's cutoff.
C5_GateAppendsOneUnitary ==
    op \in GateBuilders
        => /\ err = "none"
           /\ Len(data) = Len(prev) + 1
           /\ SubSeq(data, 1, Len(prev)) = prev
           /\ data[Len(data)].instruction.kind = "unitary"
           /\ data[Len(data)].instruction.operator.cutoff = qmr.cutoff
           /\ data[Len(data)].qubits = GateQubits

C5_Witness ==
    /\ op = "cv_bs"
    /\ Len(prev) = 1
    /\ Len(data) = 2
    /\ data[2].qubits = <<2, 3, 0, 1>>

\* the branches of a sub-circuit that act when the control qubit holds c
Acting(definition, c) ==
    SelectSeq(definition, LAMBDA e : e.instruction.ctrl_state = c)

\* C6: the instruction cv_conditional returns holds two controlled unitaries
\* on one control qubit, distinct from every target qubit; with the control at
\* 0 exactly op_a acts and with the control at 1 exactly op_b acts.
C6_ConditionalSelectsOneBranch ==
    (op = "cv_conditional" /\ ret # <<>>)
        => LET definition == ret[1].definition
               ctrl == definition[1].qubits[1]
           IN  /\ Len(definition) = 2
               /\ \A i \in 1..2 :
                     /\ definition[i].instruction.kind = "controlled"
                     /\ definition[i].instruction.num_ctrl_qubits = 1
                     /\ definition[i].qubits[1] = ctrl
                     /\ \A j \in 2..Len(definition[i].qubits) :
                           definition[i].qubits[j] # ctrl
               /\ Len(Acting(definition, 0)) = 1
               /\ Acting(definition, 0)[1].instruction.base.operator = args.op_a
               /\ Len(Acting(definition, 1)) = 1
               /\ Acting(definition, 1)[1].instruction.base.operator = args.op_b

C6_Witness ==
    /\ op = "cv_conditional"
    /\ ret # <<>>
    /\ args.op_a # args.op_b

\* C7 (as claimed): cv_cnd_d(alpha, beta, ctrl, qumode) leaves the circuit as
\* appending displacement(alpha) controlled on ctrl = 0 and displacement(beta)
\* controlled on ctrl = 1, both on ctrl and the qumode's qubits, leaves it.
C7_CondDisplacementIsTwoControlled ==
    (op = "cv_cnd_d" /\ Len(args.qumodes) = 1)
        => /\ err = "none"
           /\ data = prev \o
                <<[instruction |-> Control(Operator("displacement", <<args.a, 0>>,
                                                    qmr.cutoff, 1), 0),
                   qubits |-> <<args.ctrl>> \o args.qumodes[1]],
                  [instruction |-> Control(Operator("displacement", <<args.b, 0>>,
                                                    qmr.cutoff, 1), 1),
                   qubits |-> <<args.ctrl>> \o args.qumodes[1]]>>

\* the calls test_gates makes: the constructor without a classical register,
\* cv_initialize(0, qumode), the gate builders, cv_cnd_d and cv_cnd_s with one qumode
TestGatesCall ==
    \/ op = "__init__" /\ args.regs = <<"qr">>
    \/ op = "cv_initialize" /\ args.surplus # <<>>
    \/ op \in GateBuilders
    \/ op \in {"cv_cnd_d", "cv_cnd_s"} /\ Len(args.qumodes) = 1

\* C9 (as claimed): every call test_gates makes on a circuit of a register of
\* 2 qumodes and a qubit register is accepted without error.
C9_GatesInvokable == (qmr.num_qumodes = 2 /\ TestGatesCall) => err = "none"

\* the qubits of the qubit register
QrQubits == {QrGetItem(qmr, j) : j \in 0..(qr - 1)}

Range(seq) == {seq[i] : i \in 1..Len(seq)}

QumodeMapping ==
    /\ qmr.cutoff = Pow(2, qmr.num_qubits_per_mode)
    /\ \A k \in Qumodes :
          LET q == QumodeGetItem(qmr, k)
          IN  /\ Len(q) = qmr.num_qubits_per_mode
              /\ \A i \in 1..(Len(q) - 1) : q[i + 1] = q[i] + 1
              /\ Range(q) \cap QrQubits = {}
              /\ \A l \in Qumodes \ {k} : Range(q) \cap Range(QumodeGetItem(qmr, l)) = {}
    /\ scratch # <<>>
          => /\ scratch[1].num_qumodes = qmr.num_qumodes
             /\ scratch[1].num_qubits_per_mode = qmr.num_qubits_per_mode

\* C10: in every reachable state each qumode maps to a contiguous range of
\* qubits, disjoint from every other qumode's and from the qubit register, all
\* of one width and one cutoff; no operation changes the mapping or the cutoff;
\* the scratch register of cv_conditional has the register's number of qumodes
\* and qubits per mode.
C10_QumodeMappingInvariant == [](QumodeMapping) /\ [][qmr' = qmr]_vars

C10_Witness ==
    /\ scratch # <<>>
    /\ qmr.num_qumodes = 2
    /\ qmr.num_qubits_per_mode = 1
    /\ Len(data) > 0

====
